---- MODULE Spec2Model ----
(***************************************************************************)
(* Lifecycle and middleware-dispatch engine of bot.py: main() from         *)
(* setup_logging to on_shutdown, the platform's update queue, the          *)
(* dispatches that dp.start_polling runs as tasks, and the conversation    *)
(* state they read and write.                                              *)
(***************************************************************************)
EXTENDS Integers, Sequences, FiniteSets, TLC

\* ---------------------------------------------------------------- bounds
MaxAdmins == 2      \* longest config.tg_bot.admin_ids list
MaxUpdates == 2     \* updates the platform ever receives

AdminLists == {[i \in 1..n |-> 110 + i] : n \in 0..MaxAdmins}
Keys == {"chatA", "chatB"}
NoConfig == [loaded |-> FALSE, use_redis |-> FALSE, admin_ids |-> <<>>]
Configs == {[loaded |-> TRUE, use_redis |-> r, admin_ids |-> a] :
               r \in BOOLEAN, a \in AdminLists}

VARIABLES
    pc,           \* position of main()
    config,       \* Config snapshot (load_config)
    storage,      \* result of get_storage
    api_client,   \* "None" or "MyApi"
    bot_session,  \* "none", "open", "closed" (async with Bot)
    dp,           \* Dispatcher: [made, storage, routers, message, callback_query]
    registered,   \* middleware instances in the order outer_middleware got them
    trace,        \* milestones main has passed, in order
    sent,         \* broadcast's locals: one record per send attempt so far
    queue,        \* updates pending on the platform
    next_id,      \* id the next arriving update gets
    cleared,      \* the webhook clear has completed
    tasks,        \* dispatches created by the polling loop, by update id
    store,        \* ConversationState per conversation key
    close_calls,  \* calls of api_client.close()
    close_state,  \* "idle", "closing", "closed", "failed"
    exc,          \* exception unwinding out of the async with block
    outcome,      \* "running", "returned", "raised", "interrupted"
    logged        \* log lines that matter

vars == <<pc, config, storage, api_client, bot_session, dp, registered, trace,
          sent, queue, next_id, cleared, tasks, store, close_calls,
          close_state, exc, outcome, logged>>

\* ------------------------------------------------------ pure functions

\* no storage selected yet
NoStorage == [variant |-> "none", with_bot_id |-> FALSE, with_destiny |-> FALSE]

\* variant: the in-memory store whatever the configuration says
get_storage_memory_fallback(cfg) ==
    [variant |-> "MemoryStorage", with_bot_id |-> FALSE, with_destiny |-> FALSE]

\* get_storage(config); the key builder flags are those of line 105
get_storage(cfg) ==
    IF cfg.use_redis
    THEN [variant |-> "RedisStorage", with_bot_id |-> TRUE, with_destiny |-> TRUE]
    ELSE [variant |-> "MemoryStorage", with_bot_id |-> FALSE, with_destiny |-> FALSE]

\* variant: the client is not tested, the three are always there
middleware_types_unconditional(client) ==
    <<"ConfigMiddleware", "ApiMiddleware", "LanguageMiddleware">>

\* the list register_global_middlewares builds
middleware_types(client) ==
    <<"ConfigMiddleware">> \o
    (IF client # "None" THEN <<"ApiMiddleware", "LanguageMiddleware">> ELSE <<>>)

\* variant: the newest middleware becomes the outermost
outer_middleware_prepend(pipeline, m) == <<m>> \o pipeline

\* observer.outer_middleware(m): m goes after the ones already registered
outer_middleware(pipeline, m) == Append(pipeline, m)

RECURSIVE RegisterAll(_, _)
RegisterAll(pipeline, ms) ==
    IF ms = <<>> THEN pipeline
    ELSE RegisterAll(outer_middleware(pipeline, Head(ms)), Tail(ms))

\* variant: the callback-query pipeline is forgotten
register_global_middlewares_message_only(d, client) ==
    [d EXCEPT !.message = RegisterAll(@, middleware_types(client))]

\* register_global_middlewares(dp, config, api_client)
register_global_middlewares(d, client) ==
    [d EXCEPT !.message = RegisterAll(@, middleware_types(client)),
              !.callback_query = RegisterAll(@, middleware_types(client))]

\* variant: drop_pending_updates left out, the pending updates stay
delete_webhook_keep_pending(pending) == pending

\* bot.delete_webhook(drop_pending_updates=True): what is left pending
delete_webhook(pending) == <<>>

\* variant: only the first administrator is notified
on_startup_first_admin_only(admin_ids) ==
    IF admin_ids = <<>> THEN <<>> ELSE <<Head(admin_ids)>>

\* on_startup hands the whole admin list to broadcaster.broadcast
on_startup_recipients(admin_ids) == admin_ids

\* variant: on_startup insists that every send succeeded
on_startup_raises_unless_all_sent(count, n, broadcast_raised) ==
    broadcast_raised \/ count < n

\* on_startup has no handler of its own and drops broadcast's count: it
\* raises exactly when broadcast raised
on_startup_raises(count, n, broadcast_raised) == broadcast_raised

\* broadcaster.broadcast after a send that failed: log it, go on
broadcast_aborts(ok) == FALSE

\* variant: the administrators are notified before the webhook is cleared
main_body_startup_first ==
    <<"setup_logging", "load_config", "get_storage", "api_client", "bot",
      "dispatcher", "include_routers", "register", "on_startup",
      "delete_webhook", "start_polling", "bot_exit", "on_shutdown", "done">>

\* variant: main() leaves api_client at its default
main_register_without_client(client) == "None"

\* the api_client argument main() gives register_global_middlewares
main_register_argument(client) == client

\* variant: the middlewares are registered after the webhook clear
main_body_register_late ==
    <<"setup_logging", "load_config", "get_storage", "api_client", "bot",
      "dispatcher", "include_routers", "delete_webhook", "register",
      "on_startup", "start_polling", "bot_exit", "on_shutdown", "done">>

\* variant: the API client is constructed before the configuration is loaded
main_body_client_first ==
    <<"setup_logging", "api_client", "load_config", "get_storage", "bot",
      "dispatcher", "include_routers", "register", "delete_webhook",
      "on_startup", "start_polling", "bot_exit", "on_shutdown", "done">>

\* the statements of main() in program order (lines 112-125); "bot_exit" is
\* the end of the async with block
main_body ==
    <<"setup_logging", "load_config", "get_storage", "api_client", "bot",
      "dispatcher", "include_routers", "register", "delete_webhook",
      "on_startup", "start_polling", "bot_exit", "on_shutdown", "done">>

\* the statement main() runs once statement p has completed
After(p) == main_body[(CHOOSE i \in DOMAIN main_body : main_body[i] = p) + 1]

\* the lifecycle states, in order
Lifecycle ==
    <<"Uninitialized", "Configuring", "Connecting", "Polling", "Draining", "Closed">>

\* the lifecycle state main() is in at position p
LifecycleState(p) ==
    CASE p = "setup_logging" -> "Uninitialized"
      [] p \in {"load_config", "get_storage"} -> "Configuring"
      [] p \in {"api_client", "bot", "dispatcher", "include_routers", "register",
                "delete_webhook", "on_startup", "broadcast", "start_polling"}
            -> "Connecting"
      [] p = "polling" -> "Polling"
      [] p \in {"stop_polling", "bot_exit", "unwind", "on_shutdown", "closing"}
            -> "Draining"
      [] p = "done" -> "Closed"

Rank(p) == CHOOSE i \in DOMAIN Lifecycle : Lifecycle[i] = LifecycleState(p)

\* variant: close() is called without looking at the client
on_shutdown_closes_always(client) == TRUE

\* on_shutdown: "if api_client:", whether close() is called at all
on_shutdown_closes(client) == client # "None"

\* exit code of the process, from how asyncio.run(main()) ended
ExitCode(o) == IF o = "raised" THEN 1 ELSE 0

\* ---------------------------------------------------------------- Init
Init ==
    /\ pc = main_body[1]
    /\ config = NoConfig
    /\ storage = NoStorage
    /\ api_client = "None"
    /\ bot_session = "none"
    /\ dp = [made |-> FALSE, storage |-> NoStorage, routers |-> FALSE,
             message |-> <<>>, callback_query |-> <<>>]
    /\ registered = <<>>
    /\ trace = <<>>
    /\ sent = <<>>
    /\ queue = <<>>
    /\ next_id = 1
    /\ cleared = FALSE
    /\ tasks = <<>>
    /\ store = [k \in Keys |-> 0]
    /\ close_calls = 0
    /\ close_state = "idle"
    /\ exc = "none"
    /\ outcome = "running"
    /\ logged = {}

\* the event loop is running other tasks while main() is suspended here
LoopRunning ==
    pc \in {"polling", "stop_polling", "bot_exit", "unwind", "closing", "h_feed"}

Live(t) == t.stage \notin {"done", "cancelled"}

\* asyncio.run cancels the tasks still pending when main() is over
CancelAll(ts) ==
    [i \in DOMAIN ts |-> IF Live(ts[i]) THEN [ts[i] EXCEPT !.stage = "cancelled"]
                         ELSE ts[i]]

\* main() is over: asyncio.run returns or raises, __main__ catches
\* KeyboardInterrupt and SystemExit only
Exit(how, lines) ==
    /\ pc' = "done"
    /\ outcome' = how
    /\ tasks' = CancelAll(tasks)
    /\ logged' = logged \cup lines \cup
                 (IF how = "interrupted" THEN {"bot_stopped"} ELSE {})

\* an exception raised inside the async with block
Raise(e) ==
    /\ pc' = "unwind"
    /\ exc' = e

Range(f) == {f[i] : i \in DOMAIN f}
OkCount(s) == Cardinality({i \in DOMAIN s : s[i].ok})

\* ------------------------------------------------------- main(), in order

SetupLogging ==
    /\ pc = "setup_logging"
    /\ pc' = After("setup_logging")
    /\ UNCHANGED <<config, storage, api_client, bot_session, dp, registered,
                   trace, sent, queue, next_id, cleared, tasks, store,
                   close_calls, close_state, exc, outcome, logged>>

\* config = load_config(".env")
LoadConfig ==
    /\ pc = "load_config"
    /\ \E ok \in BOOLEAN, redis \in BOOLEAN, admins \in AdminLists :
         IF ok
         THEN /\ config' = [loaded |-> TRUE, use_redis |-> redis, admin_ids |-> admins]
              /\ pc' = After("load_config")
              /\ UNCHANGED <<outcome, tasks, logged>>
         ELSE /\ Exit("raised", {})
              /\ UNCHANGED config
    /\ UNCHANGED <<storage, api_client, bot_session, dp, registered, trace,
                   sent, queue, next_id, cleared, store, close_calls,
                   close_state, exc>>

\* storage = get_storage(config)
GetStorage ==
    /\ pc = "get_storage"
    /\ storage' = get_storage(config)
    /\ pc' = After("get_storage")
    /\ UNCHANGED <<config, api_client, bot_session, dp, registered, trace,
                   sent, queue, next_id, cleared, tasks, store, close_calls,
                   close_state, exc, outcome, logged>>

\* api_client = MyApi()
CreateApiClient ==
    /\ pc = "api_client"
    /\ \E ok \in BOOLEAN :
         IF ok
         THEN /\ api_client' = "MyApi"
              /\ pc' = After("api_client")
              /\ UNCHANGED <<outcome, tasks, logged>>
         ELSE /\ Exit("raised", {})
              /\ UNCHANGED api_client
    /\ UNCHANGED <<config, storage, bot_session, dp, registered, trace, sent,
                   queue, next_id, cleared, store, close_calls, close_state,
                   exc>>

\* async with Bot(token=config.tg_bot.token) as bot
BotEnter ==
    /\ pc = "bot"
    /\ \E ok \in BOOLEAN :
         IF ok
         THEN /\ bot_session' = "open"
              /\ pc' = After("bot")
              /\ UNCHANGED <<outcome, tasks, logged>>
         ELSE /\ Exit("raised", {})
              /\ UNCHANGED bot_session
    /\ UNCHANGED <<config, storage, api_client, dp, registered, trace, sent,
                   queue, next_id, cleared, store, close_calls, close_state,
                   exc>>

\* dp = Dispatcher(storage=storage)
CreateDispatcher ==
    /\ pc = "dispatcher"
    /\ dp' = [dp EXCEPT !.made = TRUE, !.storage = storage]
    /\ pc' = After("dispatcher")
    /\ UNCHANGED <<config, storage, api_client, bot_session, registered, trace,
                   sent, queue, next_id, cleared, tasks, store, close_calls,
                   close_state, exc, outcome, logged>>

\* dp.include_routers(*routers_list)
IncludeRouters ==
    /\ pc = "include_routers"
    /\ dp' = [dp EXCEPT !.routers = TRUE]
    /\ pc' = After("include_routers")
    /\ trace' = Append(trace, "routers_included")
    /\ UNCHANGED <<config, storage, api_client, bot_session, registered, sent,
                   queue, next_id, cleared, tasks, store, close_calls,
                   close_state, exc, outcome, logged>>

\* register_global_middlewares(dp, config, api_client)
RegisterMiddlewares ==
    /\ pc = "register"
    /\ dp' = register_global_middlewares(dp, main_register_argument(api_client))
    /\ registered' = registered \o middleware_types(main_register_argument(api_client))
    /\ trace' = Append(trace, "middlewares_registered")
    /\ pc' = After("register")
    /\ UNCHANGED <<config, storage, api_client, bot_session, sent, queue,
                   next_id, cleared, tasks, store, close_calls, close_state,
                   exc, outcome, logged>>

\* await delete_webhook(bot)
DeleteWebhook ==
    /\ pc = "delete_webhook"
    /\ \E ok \in BOOLEAN :
         IF ok
         THEN /\ queue' = delete_webhook(queue)
              /\ cleared' = TRUE
              /\ trace' = Append(trace, "webhook_cleared")
              /\ logged' = logged \cup {"webhook_deleted"}
              /\ pc' = After("delete_webhook")
              /\ UNCHANGED exc
         ELSE /\ Raise("webhook_error")
              /\ UNCHANGED <<queue, cleared, trace, logged>>
    /\ UNCHANGED <<config, storage, api_client, bot_session, dp, registered,
                   sent, next_id, tasks, store, close_calls, close_state,
                   outcome>>

\* await on_startup(bot, config.tg_bot.admin_ids): the call
OnStartup ==
    /\ pc = "on_startup"
    /\ pc' = "broadcast"
    /\ sent' = <<>>
    /\ trace' = Append(trace, "broadcast_begin")
    /\ UNCHANGED <<config, storage, api_client, bot_session, dp, registered,
                   queue, next_id, cleared, tasks, store, close_calls,
                   close_state, exc, outcome, logged>>

\* broadcaster.broadcast: the send to the next recipient
BroadcastSend ==
    /\ pc = "broadcast"
    /\ Len(sent) < Len(on_startup_recipients(config.admin_ids))
    /\ \E ok \in BOOLEAN :
         LET to == on_startup_recipients(config.admin_ids)[Len(sent) + 1]
             now == Append(sent, [to |-> to, ok |-> ok])
         IN /\ sent' = now
            /\ logged' = IF ok THEN logged ELSE logged \cup {"notify_failed"}
            /\ IF ~ok /\ broadcast_aborts(ok)
                     /\ on_startup_raises(OkCount(now), Len(config.admin_ids), TRUE)
               THEN Raise("notify_error")
               ELSE UNCHANGED <<pc, exc>>
    /\ UNCHANGED <<config, storage, api_client, bot_session, dp, registered,
                   trace, queue, next_id, cleared, tasks, store, close_calls,
                   close_state, outcome>>

\* broadcast returns its count, on_startup returns
BroadcastReturn ==
    /\ pc = "broadcast"
    /\ Len(sent) = Len(on_startup_recipients(config.admin_ids))
    /\ IF on_startup_raises(OkCount(sent), Len(config.admin_ids), FALSE)
       THEN /\ Raise("notify_error")
            /\ UNCHANGED trace
       ELSE /\ pc' = After("on_startup")
            /\ trace' = Append(trace, "broadcast_end")
            /\ UNCHANGED exc
    /\ sent' = <<>>
    /\ UNCHANGED <<config, storage, api_client, bot_session, dp, registered,
                   queue, next_id, cleared, tasks, store, close_calls,
                   close_state, outcome, logged>>

\* variant: the middlewares are registered once more as polling starts
StartPollingRegistersAgain ==
    /\ pc = "start_polling"
    /\ pc' = "polling"
    /\ dp' = register_global_middlewares(dp, api_client)
    /\ registered' = registered \o middleware_types(api_client)
    /\ UNCHANGED <<config, storage, api_client, bot_session, trace, sent,
                   queue, next_id, cleared, tasks, store, close_calls,
                   close_state, exc, outcome, logged>>

\* await dp.start_polling(bot): the call
StartPolling ==
    /\ pc = "start_polling"
    /\ pc' = "polling"
    /\ UNCHANGED <<config, storage, api_client, bot_session, dp, registered,
                   trace, sent, queue, next_id, cleared, tasks, store,
                   close_calls, close_state, exc, outcome, logged>>

\* ------------------------------------------------ dp.start_polling(bot)

NewTask(u, key, kind) ==
    [key |-> key, chain |-> dp[kind], stage |-> "in", depth |-> 0, read |-> 0,
     entered |-> <<>>, exited |-> <<>>, stale |-> u.before_clear]

\* one get_updates call: every pending update becomes a task of its own
\* (handle_as_tasks is left at its default)
Fetch ==
    /\ pc = "polling"
    /\ queue # <<>> \/ "fetch" \notin Range(trace)
    /\ LET ids == {queue[i].id : i \in DOMAIN queue}
           upd(id) == CHOOSE u \in Range(queue) : u.id = id
       IN \E keys \in [ids -> Keys],
             kinds \in [ids -> {"message", "callback_query"}] :
            tasks' = [id \in ids |-> NewTask(upd(id), keys[id], kinds[id])] @@ tasks
    /\ queue' = <<>>
    /\ trace' = IF "fetch" \in Range(trace) THEN trace ELSE Append(trace, "fetch")
    /\ UNCHANGED <<pc, config, storage, api_client, bot_session, dp, registered,
                   sent, next_id, cleared, store, close_calls, close_state,
                   exc, outcome, logged>>

\* SIGINT or SIGTERM while polling: aiogram's handler sets the stop signal
StopSignal ==
    /\ pc = "polling"
    /\ pc' = "stop_polling"
    /\ trace' = IF "stop_signal" \in Range(trace) THEN trace
                ELSE Append(trace, "stop_signal")
    /\ UNCHANGED <<config, storage, api_client, bot_session, dp, registered,
                   sent, queue, next_id, cleared, tasks, store,
                   close_calls, close_state, exc, outcome, logged>>

\* an error start_polling does not retry
PollingError ==
    /\ pc = "polling"
    /\ Raise("polling_error")
    /\ UNCHANGED <<config, storage, api_client, bot_session, dp, registered,
                   trace, sent, queue, next_id, cleared, tasks, store,
                   close_calls, close_state, outcome, logged>>

\* variant: main() calls start_polling again whenever it returns
StartPollingReturnRestarts ==
    /\ pc = "stop_polling"
    /\ pc' = "polling"
    /\ UNCHANGED <<config, storage, api_client, bot_session, dp, registered,
                   trace, sent, queue, next_id, cleared, tasks, store,
                   close_calls, close_state, exc, outcome, logged>>

\* start_polling cancels the polling task and returns; the dispatch tasks
\* it created are not awaited
StartPollingReturn ==
    /\ pc = "stop_polling"
    /\ bot_session' = "closed"
    /\ pc' = After("start_polling")
    /\ UNCHANGED <<config, storage, api_client, dp, registered, trace, sent,
                   queue, next_id, cleared, tasks, store, close_calls,
                   close_state, exc, outcome, logged>>

\* the async with block is left normally
BotExit ==
    /\ pc = "bot_exit"
    /\ bot_session' = "closed"
    /\ pc' = After("bot_exit")
    /\ UNCHANGED <<config, storage, api_client, dp, registered, trace, sent,
                   queue, next_id, cleared, tasks, store, close_calls,
                   close_state, exc, outcome, logged>>

\* the async with block is left by an exception: the session is closed, the
\* exception leaves main() and line 125 is never reached
Unwind ==
    /\ pc = "unwind"
    /\ bot_session' = "closed"
    /\ Exit(IF exc = "interrupt" THEN "interrupted" ELSE "raised", {})
    /\ UNCHANGED <<config, storage, api_client, dp, registered, trace, sent,
                   queue, next_id, cleared, store, close_calls, close_state,
                   exc>>

\* SIGINT before start_polling has installed its handlers: main() is
\* cancelled and asyncio.run raises KeyboardInterrupt
Interrupt ==
    /\ pc \in {"load_config", "get_storage", "api_client", "bot", "dispatcher",
                "include_routers", "register", "delete_webhook", "on_startup",
                "broadcast", "start_polling"}
    /\ IF bot_session = "open"
       THEN /\ Raise("interrupt")
            /\ UNCHANGED <<outcome, tasks, logged>>
       ELSE /\ Exit("interrupted", {})
            /\ UNCHANGED exc
    /\ UNCHANGED <<config, storage, api_client, bot_session, dp, registered,
                   trace, sent, queue, next_id, cleared, store, close_calls,
                   close_state>>

\* ------------------------------------------------------------ on_shutdown

\* await on_shutdown(api_client): up to the await of close()
OnShutdown ==
    /\ pc = "on_shutdown"
    /\ IF on_shutdown_closes(api_client)
       THEN /\ close_calls' = close_calls + 1
            /\ close_state' = "closing"
            /\ pc' = "closing"
            /\ UNCHANGED <<outcome, tasks, logged>>
       ELSE /\ Exit("returned", {})
            /\ UNCHANGED <<close_calls, close_state>>
    /\ UNCHANGED <<config, storage, api_client, bot_session, dp, registered,
                   trace, sent, queue, next_id, cleared, store, exc>>

\* close() returns or raises; on_shutdown has no handler, main() has none
CloseDone ==
    /\ pc = "closing"
    /\ \E ok \in BOOLEAN :
         IF ok
         THEN /\ close_state' = "closed"
              /\ Exit("returned", {"api_closed"})
         ELSE /\ close_state' = "failed"
              /\ Exit("raised", {})
    /\ UNCHANGED <<config, storage, api_client, bot_session, dp, registered,
                   trace, sent, queue, next_id, cleared, store, close_calls,
                   exc>>

\* ------------------------------------------------------------ the platform

\* an update reaches the platform
Arrive ==
    /\ outcome = "running"
    /\ pc # "done"
    /\ next_id <= MaxUpdates
    /\ queue' = Append(queue, [id |-> next_id, before_clear |-> ~cleared])
    /\ next_id' = next_id + 1
    /\ UNCHANGED <<pc, config, storage, api_client, bot_session, dp, registered,
                   trace, sent, cleared, tasks, store, close_calls,
                   close_state, exc, outcome, logged>>

\* ------------------------------------------------------------ one dispatch

TaskFrame == <<pc, config, storage, api_client, bot_session, dp, registered,
               trace, sent, queue, next_id, cleared, close_calls, close_state,
               exc, outcome, logged>>

\* the next outer middleware of the chain is entered
MiddlewareEnter ==
    /\ LoopRunning
    /\ \E i \in DOMAIN tasks :
         /\ tasks[i].stage = "in"
         /\ tasks[i].depth < Len(tasks[i].chain)
         /\ tasks' = [tasks EXCEPT
                ![i].depth = @ + 1,
                ![i].entered = Append(@, tasks[i].chain[tasks[i].depth + 1])]
    /\ UNCHANGED <<TaskFrame, store>>

\* innermost: the handler reads the conversation state of its key
HandlerRead ==
    /\ LoopRunning
    /\ \E i \in DOMAIN tasks :
         /\ tasks[i].stage = "in"
         /\ tasks[i].depth = Len(tasks[i].chain)
         /\ tasks' = [tasks EXCEPT ![i].stage = "handler",
                                   ![i].read = store[tasks[i].key]]
    /\ UNCHANGED <<TaskFrame, store>>

\* the handler writes back the state it computed from what it read
HandlerWrite ==
    /\ LoopRunning
    /\ \E i \in DOMAIN tasks :
         /\ tasks[i].stage = "handler"
         /\ store' = [store EXCEPT ![tasks[i].key] = tasks[i].read + 1]
         /\ tasks' = [tasks EXCEPT
                ![i].stage = IF tasks[i].depth = 0 THEN "done" ELSE "out"]
    /\ UNCHANGED TaskFrame

\* control returns through the innermost middleware not yet left
MiddlewareExit ==
    /\ LoopRunning
    /\ \E i \in DOMAIN tasks :
         /\ tasks[i].stage = "out"
         /\ tasks' = [tasks EXCEPT
                ![i].exited = Append(@, tasks[i].chain[tasks[i].depth]),
                ![i].depth = @ - 1,
                ![i].stage = IF tasks[i].depth = 1 THEN "done" ELSE "out"]
    /\ UNCHANGED <<TaskFrame, store>>

Next ==
    \/ SetupLogging \/ LoadConfig \/ GetStorage \/ CreateApiClient \/ BotEnter
    \/ CreateDispatcher \/ IncludeRouters \/ RegisterMiddlewares
    \/ DeleteWebhook \/ OnStartup \/ BroadcastSend \/ BroadcastReturn
    \/ StartPolling \/ Fetch \/ StopSignal \/ PollingError
    \/ StartPollingReturn \/ BotExit \/ Unwind \/ Interrupt
    \/ OnShutdown \/ CloseDone \/ Arrive
    \/ MiddlewareEnter \/ HandlerRead \/ HandlerWrite \/ MiddlewareExit

Spec == Init /\ [][Next]_vars

\* main() as it enters dp.start_polling: the startup of lines 112-123 went
\* through without a failed send and before any update arrived. Nothing
\* from here on reads the configuration, so the longer admin lists are
\* left out.
ShutdownInit ==
    /\ pc = "polling"
    /\ config \in {c \in Configs : Len(c.admin_ids) <= 1}
    /\ storage = get_storage(config)
    /\ api_client = "MyApi"
    /\ bot_session = "open"
    /\ dp = register_global_middlewares(
               [made |-> TRUE, storage |-> storage, routers |-> TRUE,
                message |-> <<>>, callback_query |-> <<>>], api_client)
    /\ registered = middleware_types(api_client)
    /\ trace = <<"routers_included", "middlewares_registered", "webhook_cleared",
                 "broadcast_begin", "broadcast_end">>
    /\ sent = <<>>
    /\ queue = <<>>
    /\ next_id = 1
    /\ cleared = TRUE
    /\ tasks = <<>>
    /\ store = [k \in Keys |-> 0]
    /\ close_calls = 0
    /\ close_state = "idle"
    /\ exc = "none"
    /\ outcome = "running"
    /\ logged = {"webhook_deleted"}

\* what can happen from there on
ShutdownNext ==
    \/ Fetch \/ StopSignal \/ PollingError \/ StartPollingReturn \/ BotExit
    \/ Unwind \/ OnShutdown \/ CloseDone \/ Arrive
    \/ MiddlewareEnter \/ HandlerRead \/ HandlerWrite \/ MiddlewareExit

\* the event loop resumes main() whenever what it awaits is over: the
\* returns of start_polling, of the with block and of close() are not
\* postponed for ever
FairSpec ==
    /\ ShutdownInit
    /\ [][ShutdownNext]_vars
    /\ WF_vars(StartPollingReturn)
    /\ WF_vars(BotExit)
    /\ WF_vars(Unwind)
    /\ WF_vars(OnShutdown)
    /\ WF_vars(CloseDone)

\* ------------------------------------------ the functions called directly

\* a dispatcher made as main() makes it, and any api_client argument
HarnessInit ==
    /\ pc = "h_register"
    /\ config \in Configs
    /\ storage = get_storage(config)
    /\ api_client \in {"None", "MyApi"}
    /\ bot_session = "open"
    /\ dp = [made |-> TRUE, storage |-> storage, routers |-> TRUE,
             message |-> <<>>, callback_query |-> <<>>]
    /\ registered = <<>>
    /\ trace = <<>>
    /\ sent = <<>>
    /\ queue = <<>>
    /\ next_id = 1
    /\ cleared = TRUE
    /\ tasks = <<>>
    /\ store = [k \in Keys |-> 0]
    /\ close_calls = 0
    /\ close_state = "idle"
    /\ exc = "none"
    /\ outcome = "running"
    /\ logged = {}

\* register_global_middlewares(dp, config, api_client)
HRegister ==
    /\ pc = "h_register"
    /\ dp' = register_global_middlewares(dp, api_client)
    /\ registered' = registered \o middleware_types(api_client)
    /\ pc' = "h_feed"
    /\ UNCHANGED <<config, storage, api_client, bot_session, trace, sent,
                   queue, next_id, cleared, tasks, store, close_calls,
                   close_state, exc, outcome, logged>>

\* one update is given to the dispatcher
HFeed ==
    /\ pc = "h_feed"
    /\ next_id <= MaxUpdates
    /\ \E key \in Keys, kind \in {"message", "callback_query"} :
         tasks' = (next_id :> NewTask([id |-> next_id, before_clear |-> FALSE],
                                      key, kind)) @@ tasks
    /\ next_id' = next_id + 1
    /\ UNCHANGED <<pc, config, storage, api_client, bot_session, dp, registered,
                   trace, sent, queue, cleared, store, close_calls,
                   close_state, exc, outcome, logged>>

\* every dispatch is over: on_shutdown(api_client) is called
HShutdown ==
    /\ pc = "h_feed"
    /\ \A i \in DOMAIN tasks : ~Live(tasks[i])
    /\ pc' = "on_shutdown"
    /\ UNCHANGED <<config, storage, api_client, bot_session, dp, registered,
                   trace, sent, queue, next_id, cleared, tasks, store,
                   close_calls, close_state, exc, outcome, logged>>

HarnessNext ==
    \/ HRegister \/ HFeed \/ HShutdown \/ OnShutdown \/ CloseDone
    \/ MiddlewareEnter \/ HandlerRead \/ HandlerWrite \/ MiddlewareExit

HarnessSpec == HarnessInit /\ [][HarnessNext]_vars

\* ---------------------------------------------------------------- claims

Prefix(a, b) == Len(a) <= Len(b) /\ a = SubSeq(b, 1, Len(a))
Reverse(a) == [i \in 1..Len(a) |-> a[Len(a) + 1 - i]]
To(s) == [i \in 1..Len(s) |-> s[i].to]
Arrived == 1..(next_id - 1)
Pending == {queue[i].id : i \in DOMAIN queue}

\* C1: whenever main() is over, the API client was constructed and the bot
\* session had been opened, close() has been called exactly once, whether
\* main() ended by a stop signal or by an error of the webhook clear, the
\* broadcast or polling. Stated as the claim states it; the code violates it.
C1_CloseExactlyOnce ==
    (pc = "done" /\ api_client = "MyApi" /\ bot_session = "closed"
        /\ exc # "interrupt") => close_calls = 1

\* C2: the webhook clear completes before the administrator broadcast
\* begins, the broadcast completes before the first fetch, and no update is
\* dispatched without a fetch that had both before it.
StartupEvents == <<"webhook_cleared", "broadcast_begin", "broadcast_end", "fetch">>
IsStartupEvent(e) == e \in Range(StartupEvents)
C2_StartupOrder ==
    /\ Prefix(SelectSeq(trace, IsStartupEvent), StartupEvents)
    /\ pc \in {"polling", "stop_polling"} => "broadcast_end" \in Range(trace)
    /\ DOMAIN tasks # {} => "fetch" \in Range(trace)

C2_Witness ==
    /\ "fetch" \in Range(trace)
    /\ DOMAIN tasks # {}
    /\ config.admin_ids # <<>>

\* C3: at most one dispatch at a time is between its read and its write of
\* one conversation key. Stated as the claim states it; the code violates it.
C3_SerializedPerKey ==
    \A i, j \in DOMAIN tasks :
        (i # j /\ tasks[i].stage = "handler" /\ tasks[j].stage = "handler")
            => tasks[i].key # tasks[j].key

\* C4: close() has not begun while a dispatch is still executing. Stated as
\* the claim states it; the code violates it.
C4_CloseAfterDrain ==
    close_state = "closing" => \A i \in DOMAIN tasks : ~Live(tasks[i])

\* C5: once register_global_middlewares has run, both pipelines hold
\* [Config, Api, Language] when a client was given and [Config] when not.
C5_ChainFromClient ==
    pc # "h_register" =>
        LET want == IF api_client = "None"
                    THEN <<"ConfigMiddleware">>
                    ELSE <<"ConfigMiddleware", "ApiMiddleware", "LanguageMiddleware">>
        IN /\ dp.message = want
           /\ dp.callback_query = want
           /\ Head(dp.message) = "ConfigMiddleware"

C5_Witness ==
    /\ pc = "h_feed"
    /\ api_client = "None"
    /\ dp.message = <<"ConfigMiddleware">>
    /\ \E i \in DOMAIN tasks : tasks[i].stage = "done"

\* C6: in every dispatch the middlewares are entered in registration order,
\* the handler runs once all are entered and none is left, and they are
\* left in the reverse of registration order.
C6_Onion ==
    \A i \in DOMAIN tasks :
        LET t == tasks[i]
        IN /\ Prefix(t.entered, registered)
           /\ Prefix(t.exited, Reverse(registered))
           /\ t.exited # <<>> => t.entered = registered
           /\ t.stage = "handler" => (t.entered = registered /\ t.exited = <<>>)
           /\ t.stage = "done" =>
                 (t.entered = registered /\ t.exited = Reverse(registered))

C6_Witness ==
    \E i \in DOMAIN tasks :
        /\ tasks[i].stage = "done"
        /\ tasks[i].entered =
              <<"ConfigMiddleware", "ApiMiddleware", "LanguageMiddleware">>
        /\ tasks[i].exited =
              <<"LanguageMiddleware", "ApiMiddleware", "ConfigMiddleware">>

\* C7: once the broadcast has begun, main() leaves it only by completing it
\* and going on to start_polling, whichever sends failed (a signal that
\* cancels main() aside).
C7_NotifyFailureNotFatal ==
    /\ exc # "notify_error"
    /\ ("broadcast_begin" \in Range(trace) /\ pc # "broadcast" /\ exc # "interrupt")
          => "broadcast_end" \in Range(trace)

C7_Witness ==
    /\ pc = "polling"
    /\ "notify_failed" \in logged
    /\ Len(config.admin_ids) = 2

\* C8: the broadcast attempts the administrators of the configured list in
\* order, one attempt each, and returns only when each has had its attempt,
\* whichever attempts failed.
C8_EveryAdminAttempted ==
    [][/\ pc' = "broadcast" => Prefix(To(sent'), config'.admin_ids)
       /\ (pc = "broadcast" /\ pc' \notin {"broadcast", "unwind"})
             => To(sent) = config.admin_ids]_vars

C8_Witness ==
    /\ pc = "broadcast"
    /\ Len(sent) = 2
    /\ ~sent[1].ok
    /\ sent[2].ok

\* C9: no update that reached the platform before the webhook clear is ever
\* fetched or dispatched, and none is still pending once the clear is done.
C9_PendingDropped ==
    /\ \A i \in DOMAIN tasks : ~tasks[i].stale
    /\ cleared => \A i \in DOMAIN queue : ~queue[i].before_clear

C9_Witness ==
    /\ cleared
    /\ \E id \in Arrived : id \notin Pending /\ id \notin DOMAIN tasks
    /\ DOMAIN tasks # {}

\* C10: when close() fails, the failure is logged and main() still ends
\* normally. Stated as the claim states it; the code violates it.
C10_CloseFailureStillCloses ==
    (pc = "done" /\ close_state = "failed")
        => (outcome = "returned" /\ "close_failed" \in logged)

\* C11: a process ended by an interrupt signal exits with code 0 after a
\* logged message, and a process ended by a fatal startup failure exits
\* with a non-zero code without ever fetching. Stated as the claim states
\* it; the code violates it.
Signalled == exc = "interrupt" \/ "stop_signal" \in Range(trace)
StartupFailed == outcome = "raised" /\ "broadcast_begin" \notin Range(trace)
C11_ExitCodeByCause ==
    pc = "done" =>
        /\ Signalled =>
              (ExitCode(outcome) = 0 /\ logged \cap {"bot_stopped", "api_closed"} # {})
        /\ StartupFailed =>
              (ExitCode(outcome) # 0 /\ "fetch" \notin Range(trace))

\* C12: the lifecycle never goes back to an earlier state, moves one state
\* at a time while no error or cancelling signal has occurred, and never
\* leaves Closed.
C12_LifecycleForward ==
    [][/\ Rank(pc') >= Rank(pc)
       /\ (exc' = "none" /\ outcome' \notin {"raised", "interrupted"})
             => Rank(pc') <= Rank(pc) + 1
       /\ pc = "done" => pc' = "done"]_vars

C12_Witness ==
    /\ pc = "done"
    /\ outcome = "returned"
    /\ "fetch" \in Range(trace)
    /\ close_calls = 1

\* C13: once a stop signal or an error polling does not retry has occurred
\* in Polling, the lifecycle is in Draining and eventually reaches Closed.
ShutdownTriggered ==
    pc = "stop_polling" \/ (pc = "unwind" /\ exc = "polling_error")
C13_ShutdownCompletes ==
    /\ [](ShutdownTriggered => LifecycleState(pc) = "Draining")
    /\ ShutdownTriggered ~> (LifecycleState(pc) = "Closed")

C13_Witness ==
    /\ pc = "done"
    /\ "stop_signal" \in Range(trace)
    /\ \E i \in DOMAIN tasks : tasks[i].stage = "cancelled"

\* C14: the store is the networked one, keyed by bot identity and destiny,
\* iff config.tg_bot.use_redis is set, and the in-memory one otherwise; the
\* Dispatcher holds that same store; once selected it never changes.
C14_StorageFixed ==
    /\ [](storage # NoStorage =>
            /\ config.loaded
            /\ (storage.variant = "RedisStorage") = config.use_redis
            /\ (storage.variant = "MemoryStorage") = ~config.use_redis
            /\ storage.variant = "RedisStorage"
                  => (storage.with_bot_id /\ storage.with_destiny))
    /\ [](dp.made => (storage # NoStorage /\ dp.storage = storage))
    /\ [][storage # NoStorage => (storage' = storage /\ config' = config)]_vars

C14_Witness ==
    /\ pc = "closing"
    /\ storage.variant = "RedisStorage"
    /\ dp.storage = storage
    /\ DOMAIN tasks # {}

\* C15: once register_global_middlewares has run, the message pipeline and
\* the callback-query pipeline hold the same middleware instances in the
\* same order, the order of registration, each instance once.
C15_PipelinesAgree ==
    pc # "h_register" =>
        /\ dp.message = dp.callback_query
        /\ dp.callback_query = registered
        /\ Cardinality(Range(dp.callback_query)) = Len(dp.callback_query)
        /\ Range(dp.callback_query) \subseteq
              {"ConfigMiddleware", "ApiMiddleware", "LanguageMiddleware"}

C15_Witness ==
    /\ pc = "h_feed"
    /\ api_client = "MyApi"
    /\ Len(dp.callback_query) = Len(dp.message)
    /\ Len(dp.callback_query) > 1
    /\ \E i \in DOMAIN tasks : tasks[i].stage = "done"

\* C16: on_shutdown called without a client calls no close(), raises
\* nothing and changes nothing else: it only returns.
C16_ShutdownWithoutClient ==
    [][(pc = "on_shutdown" /\ api_client = "None") =>
          /\ pc' = "done"
          /\ outcome' = "returned"
          /\ UNCHANGED <<config, storage, api_client, bot_session, dp,
                         registered, trace, sent, queue, next_id, cleared,
                         tasks, store, close_calls, close_state, exc,
                         logged>>]_vars

C16_Witness ==
    /\ pc = "done"
    /\ api_client = "None"
    /\ close_calls = 0
    /\ outcome = "returned"
    /\ \E i \in DOMAIN tasks : tasks[i].stage = "done"

\* C17: the pipelines change only in the one step that registers the
\* middlewares, which finds nothing registered; main() does not get past
\* that step without registering; no later step adds, removes or reorders.
C17_ChainImmutable ==
    [][/\ (dp'.message # dp.message \/ dp'.callback_query # dp.callback_query
             \/ registered' # registered)
            => (pc = "register" /\ registered = <<>>
                  /\ dp.message = <<>> /\ dp.callback_query = <<>>)
       /\ (pc = "register" /\ LifecycleState(pc') = "Connecting" /\ pc' # pc)
            => registered' # <<>>]_vars

C17_Witness ==
    /\ pc = "done"
    /\ outcome = "returned"
    /\ dp.message = registered
    /\ registered # <<>>
    /\ \E i \in DOMAIN tasks : tasks[i].stage = "done"

\* C18: routers are included and middlewares registered before the webhook
\* clear, the broadcast and the first fetch, and every dispatch runs through
\* the complete registered chain, ConfigMiddleware first.
SetupEvents ==
    <<"routers_included", "middlewares_registered", "webhook_cleared",
      "broadcast_begin", "broadcast_end", "fetch">>
IsSetupEvent(e) == e \in Range(SetupEvents)
C18_RegisteredBeforeFetch ==
    /\ Prefix(SelectSeq(trace, IsSetupEvent), SetupEvents)
    /\ \A i \in DOMAIN tasks :
          /\ dp.routers
          /\ "middlewares_registered" \in Range(trace)
          /\ tasks[i].chain = registered
          /\ tasks[i].chain # <<>>
          /\ Head(tasks[i].chain) = "ConfigMiddleware"

C18_Witness ==
    /\ "fetch" \in Range(trace)
    /\ \E i \in DOMAIN tasks :
          /\ tasks[i].stage = "done"
          /\ tasks[i].chain = registered
          /\ Len(tasks[i].entered) = Len(registered)

\* C19: in main() whatever is registered is the full chain, Polling is only
\* reached with the client constructed and the full chain in both
\* pipelines, and without a client nothing is registered and Polling is
\* not reached.
FullChain == <<"ConfigMiddleware", "ApiMiddleware", "LanguageMiddleware">>
C19_FullChainInMain ==
    /\ registered # <<>> => registered = FullChain
    /\ LifecycleState(pc) = "Polling" =>
          (api_client = "MyApi" /\ dp.message = FullChain
             /\ dp.callback_query = FullChain)
    /\ \A i \in DOMAIN tasks : tasks[i].chain = FullChain
    /\ api_client = "None" =>
          /\ registered = <<>>
          /\ dp.message = <<>>
          /\ LifecycleState(pc) \notin {"Polling", "Draining"}
          /\ "fetch" \notin Range(trace)

C19_Witness ==
    /\ pc = "polling"
    /\ dp.message = FullChain
    /\ \E i \in DOMAIN tasks :
          tasks[i].stage = "handler" /\ tasks[i].entered = FullChain

====
